---------------------------- MODULE Spec2Model ----------------------------
(***************************************************************************)
(* State-machine model of lightgbm/plotting.py: the four plotting entry    *)
(* points plot_importance, plot_split_value_histogram, plot_metric and     *)
(* plot_tree, the graph builder create_tree_digraph and the recursive tree *)
(* walker _to_graphviz.add.                                                *)
(*                                                                         *)
(* One behaviour is one call of one entry point; a caller of plot_metric   *)
(* may call it again on the record it still holds.  Each action is a block *)
(* of consecutive source lines; pc names the block that runs next.  The    *)
(* external collaborators (booster accessors, matplotlib axes, graphviz    *)
(* Digraph) are modelled by what the module does to them: `calls` is the   *)
(* ordered log of every call made on them, `ax` and `graph` hold what has  *)
(* been drawn or registered so far.                                        *)
(*                                                                         *)
(* Numbers that the code multiplies by 0.2 or 1.1 are held in tenths, so   *)
(* that the axis limits stay integers.                                     *)
(***************************************************************************)
EXTENDS Integers, Sequences, FiniteSets, TLC

VARIABLES
    MATPLOTLIB_INSTALLED,  \* compat flag, fixed for the process
    GRAPHVIZ_INSTALLED,    \* compat flag, fixed for the process
    dict_order,            \* which item dict.popitem removes in this process (None until observed)
    picked,                \* the metrics plot_metric picked by popitem, one per call
    fn,                    \* entry point the caller invoked ("none" before the call)
    pc,                    \* next block of source lines to run
    err,                   \* exception that left the entry point, or NoErr
    calls,                 \* log of type checks, accessor calls and drawing calls, in order
    warned,                \* warnings.warn calls, in order
    figure,                \* TRUE once plt.subplots created a figure
    ax,                    \* the plot surface: what has been drawn on it
    returned,              \* TRUE once the entry point returned its result
    \* plot_importance
    importance_type, max_num_features, ignore_zero, importance, tuples,
    \* plot_split_value_histogram
    hist, bins,
    \* plot_metric
    heap,                  \* the dict objects alive, by object id
    booster, eval_results, dataset_names, metric, name, results,
    num_iteration, max_result, min_result,
    \* create_tree_digraph / plot_tree / _to_graphviz
    call_kwargs,           \* the keyword arguments as the caller wrote them
    old_args, kwargs, tree_index, tree_infos, tree_info, show_info, feature_names,
    graph, stack

flags    == <<MATPLOTLIB_INSTALLED, GRAPHVIZ_INSTALLED, dict_order, picked>>
ctl      == <<fn, pc, err, calls, warned, returned>>
surface  == <<figure, ax>>
piVars   == <<importance_type, max_num_features, ignore_zero, importance, tuples>>
hVars    == <<hist, bins>>
pmVars   == <<heap, booster, eval_results, dataset_names, metric, name, results,
              num_iteration, max_result, min_result>>
treeVars == <<call_kwargs, old_args, kwargs, tree_index, tree_infos, tree_info, show_info,
              feature_names, graph, stack>>
vars     == <<flags, ctl, surface, piVars, hVars, pmVars, treeVars>>

----------------------------------------------------------------------------
(* Bounds of the explored inputs *)

MaxCalls    == 2    \* calls of plot_metric on one record
MaxInternal == 2    \* internal nodes of a dumped tree
MaxFeatures == 2    \* length of a feature-importance vector
MaxBins     == 2    \* bins of a split-value histogram
MaxValue    == 2    \* largest importance and largest bin count
MaxResult   == 1    \* largest l1 value of an evaluation record

----------------------------------------------------------------------------
(* Python values *)

None  == "None"
NoErr == [type |-> "None", msg |-> ""]

Exc(type, msg) == [type |-> type, msg |-> msg]

Range(s) == {s[i] : i \in 1..Len(s)}

\* An argument that should be a tuple of 2 elements: its Python type and items.
NoneObj     == [type |-> "NoneType", items |-> <<>>]
TupleObj(s) == [type |-> "tuple", items |-> s]
ListObj(s)  == [type |-> "list", items |-> s]

\* _check_not_tuple_of_2_elements raises TypeError exactly when this is TRUE.
NotTupleOf2Elements(obj) == obj.type # "tuple" \/ Len(obj.items) # 2

\* Values a caller passes for figsize, xlim, ylim (items in tenths).
PairArgs == {NoneObj, TupleObj(<<0, 50>>), TupleObj(<<0, 50, 90>>), ListObj(<<0, 50>>)}

\* isinstance outcomes for the booster argument.
BoosterTypes == {"Booster", "LGBMModel", "dict", "str"}

----------------------------------------------------------------------------
(* Tree descriptions, as dump_model()['tree_info'][i]['tree_structure']     *)
(* gives them: nested records, an internal node carrying split_index,       *)
(* decision_type, left_child and right_child, a leaf carrying leaf_index.   *)

\* '!=' stands for every decision type the walker does not know.
DecisionTypes == {"<=", "==", "!="}

RECURSIVE TreesFrom(_, _, _)
\* Trees with n internal nodes, split indices numbered from s0 and leaf
\* indices from l0 in pre-order (so indices are unique, as in a model dump).
TreesFrom(n, s0, l0) ==
    IF n = 0
    THEN {[leaf_index |-> l0]}
    ELSE UNION {
           {[split_index |-> s0, decision_type |-> d, left_child |-> l, right_child |-> r] :
               l \in TreesFrom(k, s0 + 1, l0),
               r \in TreesFrom(n - 1 - k, s0 + 1 + k, l0 + k + 1),
               d \in DecisionTypes}
           : k \in 0..(n - 1)}

TreeStructures == UNION {TreesFrom(n, 0, 0) : n \in 0..MaxInternal}

IsSplit(root) == "split_index" \in DOMAIN root

RECURSIVE Subtrees(_)
\* Every node of the tree rooted at root, each as the subtree it roots.
Subtrees(root) ==
    IF IsSplit(root)
    THEN {root} \cup Subtrees(root.left_child) \cup Subtrees(root.right_child)
    ELSE {root}

Internals(root) == {t \in Subtrees(root) : IsSplit(t)}
Leaves(root)    == {t \in Subtrees(root) : ~IsSplit(t)}

\* 'split{0}'.format(root['split_index']) / 'leaf{0}'.format(root['leaf_index'])
NodeName(root) ==
    IF IsSplit(root) THEN <<"split", root.split_index>> ELSE <<"leaf", root.leaf_index>>

NoParent == <<>>


\* DecisionLabels with the two labels of '==' exchanged.
DecisionLabels_Swapped(decision_type) ==
    IF decision_type = "<=" THEN <<"<=", ">">>
    ELSE IF decision_type = "==" THEN <<"isn't", "is">>
    ELSE <<>>

\* DecisionLabels taking every unknown decision type for '<='.
DecisionLabels_Lenient(decision_type) ==
    IF decision_type = "==" THEN <<"is", "isn't">> ELSE <<"<=", ">">>

\* Labels of the edges to the left and to the right child (lines 398-403);
\* the empty tuple stands for `raise ValueError`.
DecisionLabels(decision_type) ==
    IF decision_type = "<=" THEN <<"<=", ">">>
    ELSE IF decision_type = "==" THEN <<"is", "isn't">>
    ELSE <<>>

\* Lines of a node's label, by the field each line shows (lines 387-396, 408-411).
NodeLabel(root, info, names) ==
    IF IsSplit(root)
    THEN <<IF names # None THEN "split_feature_name" ELSE "split_feature_index",
           "threshold">>
         \o SelectSeq(info, LAMBDA i : i \in {"split_gain", "internal_value", "internal_count"})
    ELSE <<"leaf_index", "leaf_value">>
         \o (IF "leaf_count" \in Range(info) THEN <<"leaf_count">> ELSE <<>>)

\* graph.node(name, label=label)
GraphNode(root, info, names) ==
    [kind |-> "node", name |-> NodeName(root), label |-> NodeLabel(root, info, names)]

\* EdgeOf without the `parent is not None` guard.
EdgeOf_Unguarded(parent, child_name, decision) ==
    <<[kind |-> "edge", tail_name |-> parent, head_name |-> child_name,
       label |-> <<decision>>]>>

\* Lines 413-414: what the end of add() appends to the graph body.
EdgeOf(parent, child_name, decision) ==
    IF parent # NoParent
    THEN <<[kind |-> "edge", tail_name |-> parent, head_name |-> child_name,
            label |-> <<decision>>]>>
    ELSE <<>>

\* Lines 398-403: TRUE when the walker raises ValueError at this internal node.
InvalidDecision(root) == DecisionLabels(root.decision_type) = <<>>

\* One activation of add(root, parent, decision); `at` is the statement it runs next.
Frame(root, parent, decision) ==
    [root |-> root, parent |-> parent, decision |-> decision, at |-> "node"]

\* LeftCall descending into the right child: the walk never enters the left subtree.
LeftCall_RightChild(root) ==
    Frame(root.right_child, NodeName(root), DecisionLabels(root.decision_type)[1])

\* Activations of lines 404 and 405: the recursive calls on the two children.
LeftCall(root) ==
    Frame(root.left_child, NodeName(root), DecisionLabels(root.decision_type)[1])
RightCall(root) ==
    Frame(root.right_child, NodeName(root), DecisionLabels(root.decision_type)[2])

NoGraph == [made |-> FALSE, kwargs |-> <<>>, body |-> <<>>]

Nodes(g) == {i \in 1..Len(g.body) : g.body[i].kind = "node"}
Edges(g) == {i \in 1..Len(g.body) : g.body[i].kind = "edge"}

----------------------------------------------------------------------------
(* Deprecated old_* parameters *)

\* The loop list of create_tree_digraph (lines 458-460).
CtdParamNames == <<"old_name", "old_comment", "old_filename", "old_directory",
                   "old_format", "old_engine", "old_encoding", "old_graph_attr",
                   "old_node_attr", "old_edge_attr", "old_body">>

\* The loop list of plot_tree (line 536).
PtParamNames == <<"old_graph_attr", "old_node_attr", "old_edge_attr">>

\* param_name[4:]
Unprefixed(param_name) ==
    CASE param_name = "old_name"       -> "name"
      [] param_name = "old_comment"    -> "comment"
      [] param_name = "old_filename"   -> "filename"
      [] param_name = "old_directory"  -> "directory"
      [] param_name = "old_format"     -> "format"
      [] param_name = "old_engine"     -> "engine"
      [] param_name = "old_encoding"   -> "encoding"
      [] param_name = "old_graph_attr" -> "graph_attr"
      [] param_name = "old_node_attr"  -> "node_attr"
      [] param_name = "old_edge_attr"  -> "edge_attr"
      [] param_name = "old_body"       -> "body"
      [] param_name = "old_strict"     -> "strict"

\* Named old_* parameters of create_tree_digraph (lines 423-425) and their defaults.
CtdOldNames  == Range(CtdParamNames) \cup {"old_strict"}
CtdDefault(n) == IF n = "old_strict" THEN "False" ELSE None
CtdDefaults  == [n \in CtdOldNames |-> CtdDefault(n)]

\* Named old_* parameters of plot_tree (line 496).
PtDefaults == [n \in Range(PtParamNames) |-> None]

\* locals().get(key) inside an entry point whose old_* parameters are `old`:
\* the other local names are the remaining parameters and the loop variables.
OtherLocals == {"booster", "ax", "tree_index", "figsize", "show_info", "precision",
                "kwargs", "param_name", "param"}
LocalsGet(old, key) ==
    IF key \in DOMAIN old THEN old[key]
    ELSE IF key \in OtherLocals THEN "object"
    ELSE None

\* Python truth value of a parameter value.
Truthy(v) == v \notin {None, "False"}

RECURSIVE FoldOld(_, _, _)
\* The loop of lines 458-467 / 536-543: kwargs after the loop over names.
FoldOld(names, old, kw) ==
    IF names = <<>> THEN kw
    ELSE LET param_name == Head(names)
             param      == LocalsGet(old, param_name)
         IN  FoldOld(Tail(names), old,
                     IF param # None /\ Unprefixed(param_name) \notin DOMAIN kw
                     THEN kw @@ (Unprefixed(param_name) :> param)
                     ELSE kw)

\* The deprecation warnings the same loop emits, in order.
WarnOld(names, old) == SelectSeq(names, LAMBDA p : LocalsGet(old, p) # None)

\* Lines 468-473: the key the code looks up to learn whether old_strict was set.
StrictKey == "strict"
StrictSet(old) == Truthy(LocalsGet(old, StrictKey))

\* What a caller passes to create_tree_digraph: nothing deprecated, old_name
\* alone, old_strict=True alone, or every deprecated parameter.
CtdOldChoices ==
    {CtdDefaults,
     [CtdDefaults EXCEPT !["old_name"] = "old_value"],
     [CtdDefaults EXCEPT !["old_strict"] = "True"],
     [n \in CtdOldNames |-> IF n = "old_strict" THEN "True" ELSE "old_value"]}

\* The keyword arguments of a call: the named old_* parameters that differ
\* from `defaults`, and **kwargs.
CallKwargs(old, defaults, kw) ==
    LET set == {n \in DOMAIN old : old[n] # defaults[n]}
    IN  [k \in set \cup DOMAIN kw |-> IF k \in set THEN old[k] ELSE kw[k]]

\* **kwargs a caller passes along: none, or new-style values for three keys.
KwargsChoices == {<<>>, [k \in {"name", "graph_attr", "strict"} |-> "kw_value"]}

\* plot_tree: its three named old_* parameters, and **kwargs that may carry
\* old_* parameters of create_tree_digraph.
PtOldChoices ==
    {PtDefaults, [n \in Range(PtParamNames) |-> "old_value"]}
PtKwargsChoices ==
    KwargsChoices \cup {[k \in {"old_name", "old_strict"} |->
                            IF k = "old_strict" THEN "True" ELSE "old_value"]}

\* Binding of **kwargs to the named parameters of create_tree_digraph at the
\* call of lines 550-551.
BindOld(kw)  == [n \in CtdOldNames |-> IF n \in DOMAIN kw THEN kw[n] ELSE CtdDefault(n)]
BindRest(kw) == [k \in (DOMAIN kw) \ CtdOldNames |-> kw[k]]

ShowInfoChoices ==
    {NoneObj, ListObj(<<"split_gain", "internal_value", "internal_count", "leaf_count">>)}

----------------------------------------------------------------------------
(* Control *)

Log(c)     == calls' = calls \o c
Goto(l)    == pc' = l /\ err' = err /\ returned' = returned
Raise(e)   == pc' = "done" /\ err' = e /\ returned' = FALSE
Return     == pc' = "done" /\ err' = err /\ returned' = TRUE

BlankAxes == [bars |-> <<>>, texts |-> <<>>, lines |-> <<>>, legend |-> <<>>,
              xlim |-> <<>>, ylim |-> <<>>, defaulted |-> {}, ylabel |-> None,
              image |-> FALSE]

Init ==
    /\ MATPLOTLIB_INSTALLED \in BOOLEAN
    /\ GRAPHVIZ_INSTALLED \in BOOLEAN
    /\ dict_order = None /\ picked = <<>>
    /\ fn = "none" /\ pc = "idle" /\ err = NoErr
    /\ calls = <<>> /\ warned = <<>> /\ returned = FALSE
    /\ figure = FALSE /\ ax = BlankAxes
    /\ importance_type = "split" /\ max_num_features = <<>> /\ ignore_zero = TRUE
    /\ importance = <<>> /\ tuples = <<>>
    /\ hist = <<>> /\ bins = <<>>
    /\ heap = <<>> /\ booster = 0 /\ eval_results = 0 /\ dataset_names = NoneObj
    /\ metric = None /\ name = None /\ results = <<>>
    /\ num_iteration = 0 /\ max_result = 0 /\ min_result = 0
    /\ call_kwargs = <<>> /\ old_args = <<>> /\ kwargs = <<>> /\ tree_index = 0 /\ tree_infos = <<>>
    /\ tree_info = <<>> /\ show_info = NoneObj /\ feature_names = None
    /\ graph = NoGraph /\ stack = <<>>

----------------------------------------------------------------------------
(* create_tree_digraph *)

call_create_tree_digraph ==
    /\ pc = "idle"
    /\ fn' = "create_tree_digraph"
    /\ old_args' \in CtdOldChoices
    /\ kwargs' \in KwargsChoices
    /\ call_kwargs' = CallKwargs(old_args', CtdDefaults, kwargs')
    /\ tree_index' \in 0..1
    /\ show_info' \in ShowInfoChoices
    /\ Goto("ctd_check_booster")
    /\ UNCHANGED <<flags, calls, warned, surface, piVars, hVars, pmVars,
                   tree_infos, tree_info, feature_names, graph, stack>>

\* Lines 453-456.
ctd_check_booster ==
    /\ pc = "ctd_check_booster"
    /\ \E btype \in BoosterTypes :
         /\ Log(<<"isinstance">>)
         /\ IF btype \in {"LGBMModel", "Booster"}
            THEN Goto("ctd_deprecated")
            ELSE Raise(Exc("TypeError", "booster must be Booster or LGBMModel."))
    /\ UNCHANGED <<flags, fn, warned, surface, piVars, hVars, pmVars, treeVars>>

\* Lines 458-473.
ctd_deprecated ==
    /\ pc = "ctd_deprecated"
    /\ LET folded == FoldOld(CtdParamNames, old_args, kwargs)
       IN  /\ warned' = warned \o WarnOld(CtdParamNames, old_args)
                               \o (IF StrictSet(old_args) THEN <<"old_strict">> ELSE <<>>)
           /\ kwargs' = IF StrictSet(old_args) /\ "strict" \notin DOMAIN folded
                        THEN folded @@ ("strict" :> "True")
                        ELSE folded
    /\ Log(<<>>)
    /\ Goto("ctd_dump_model")
    /\ UNCHANGED <<flags, fn, surface, piVars, hVars, pmVars, call_kwargs, old_args, tree_index,
                   tree_infos, tree_info, show_info, feature_names, graph, stack>>

\* Lines 475-480: the dump holds no tree or one tree, with or without feature names.
ctd_dump_model ==
    /\ pc = "ctd_dump_model"
    /\ Log(<<"dump_model">>)
    /\ \/ tree_infos' = <<>>
       \/ \E t \in TreeStructures : tree_infos' = <<[tree_structure |-> t]>>
    /\ feature_names' \in {None, "feature_names"}
    /\ Goto("ctd_tree_index")
    /\ UNCHANGED <<flags, fn, warned, surface, piVars, hVars, pmVars, call_kwargs, old_args, kwargs,
                   tree_index, tree_info, show_info, graph, stack>>

\* Lines 482-488.
ctd_tree_index ==
    /\ pc = "ctd_tree_index"
    /\ IF tree_index < Len(tree_infos)
       THEN /\ tree_info' = tree_infos[tree_index + 1]
            /\ show_info' = IF show_info = NoneObj THEN ListObj(<<>>) ELSE show_info
            /\ Goto("tg_import")
       ELSE /\ Raise(Exc("IndexError", "tree_index is out of range."))
            /\ UNCHANGED <<tree_info, show_info>>
    /\ UNCHANGED <<flags, fn, calls, warned, surface, piVars, hVars, pmVars, call_kwargs, old_args,
                   kwargs, tree_index, tree_infos, feature_names, graph, stack>>

----------------------------------------------------------------------------
(* _to_graphviz *)

\* Lines 378-381.
tg_import ==
    /\ pc = "tg_import"
    /\ IF GRAPHVIZ_INSTALLED
       THEN Goto("tg_digraph")
       ELSE Raise(Exc("ImportError", "You must install graphviz to plot tree."))
    /\ UNCHANGED <<flags, fn, calls, warned, surface, piVars, hVars, pmVars, treeVars>>

\* Lines 416-417: graph = Digraph(**kwargs), then the call add(tree_structure).
tg_digraph ==
    /\ pc = "tg_digraph"
    /\ Log(<<"Digraph">>)
    /\ graph' = [made |-> TRUE, kwargs |-> kwargs, body |-> <<>>]
    /\ stack' = <<Frame(tree_info.tree_structure, NoParent, None)>>
    /\ Goto("add")
    /\ UNCHANGED <<flags, fn, warned, surface, piVars, hVars, pmVars, call_kwargs, old_args, kwargs,
                   tree_index, tree_infos, tree_info, show_info, feature_names>>

Top == stack[Len(stack)]
Pop == SubSeq(stack, 1, Len(stack) - 1)
TopAt(l) == [stack EXCEPT ![Len(stack)].at = l]

\* Lines 385-403 and 406-412: register the node; an internal node then
\* computes its two branch labels or raises.
add_node ==
    /\ pc = "add" /\ stack # <<>> /\ Top.at = "node"
    /\ graph' = [graph EXCEPT !.body =
                    Append(@, GraphNode(Top.root, show_info.items, feature_names))]
    /\ IF ~IsSplit(Top.root)
       THEN stack' = TopAt("edge") /\ Goto("add")
       ELSE IF ~InvalidDecision(Top.root)
       THEN stack' = TopAt("left") /\ Goto("add")
       ELSE /\ stack' = <<>>
            /\ Raise(Exc("ValueError", "Invalid decision type in tree model."))
    /\ UNCHANGED <<flags, fn, calls, warned, surface, piVars, hVars, pmVars, call_kwargs, old_args,
                   kwargs, tree_index, tree_infos, tree_info, show_info, feature_names>>

\* Line 404.
add_left ==
    /\ pc = "add" /\ stack # <<>> /\ Top.at = "left"
    /\ stack' = Append(TopAt("right"), LeftCall(Top.root))
    /\ UNCHANGED <<flags, ctl, surface, piVars, hVars, pmVars, call_kwargs, old_args, kwargs,
                   tree_index, tree_infos, tree_info, show_info, feature_names, graph>>

\* Line 405.
add_right ==
    /\ pc = "add" /\ stack # <<>> /\ Top.at = "right"
    /\ stack' = Append(TopAt("edge"), RightCall(Top.root))
    /\ UNCHANGED <<flags, ctl, surface, piVars, hVars, pmVars, call_kwargs, old_args, kwargs,
                   tree_index, tree_infos, tree_info, show_info, feature_names, graph>>

\* Lines 413-414, then the return of this activation.
add_edge ==
    /\ pc = "add" /\ stack # <<>> /\ Top.at = "edge"
    /\ graph' = [graph EXCEPT !.body =
                    @ \o EdgeOf(Top.parent, NodeName(Top.root), Top.decision)]
    /\ stack' = Pop
    /\ UNCHANGED <<flags, ctl, surface, piVars, hVars, pmVars, call_kwargs, old_args, kwargs,
                   tree_index, tree_infos, tree_info, show_info, feature_names>>

\* Line 419 and lines 490-492: the graph goes back to create_tree_digraph,
\* which returns it to its caller.
tg_return ==
    /\ pc = "add" /\ stack = <<>>
    /\ IF fn = "create_tree_digraph" THEN Return ELSE Goto("pt_render")
    /\ UNCHANGED <<flags, fn, calls, warned, surface, piVars, hVars, pmVars, treeVars>>

----------------------------------------------------------------------------
(* plot_tree *)

call_plot_tree ==
    /\ pc = "idle"
    /\ fn' = "plot_tree"
    /\ old_args' \in PtOldChoices
    /\ kwargs' \in PtKwargsChoices
    /\ call_kwargs' = CallKwargs(old_args', PtDefaults, kwargs')
    /\ tree_index' \in 0..1
    /\ show_info' \in ShowInfoChoices
    /\ Goto("pt_import")
    /\ UNCHANGED <<flags, calls, warned, surface, piVars, hVars, pmVars,
                   tree_infos, tree_info, feature_names, graph, stack>>

\* Lines 530-534.
pt_import ==
    /\ pc = "pt_import"
    /\ IF MATPLOTLIB_INSTALLED
       THEN Goto("pt_deprecated")
       ELSE Raise(Exc("ImportError", "You must install matplotlib to plot tree."))
    /\ UNCHANGED <<flags, fn, calls, warned, surface, piVars, hVars, pmVars, treeVars>>

\* Lines 536-543.
pt_deprecated ==
    /\ pc = "pt_deprecated"
    /\ warned' = warned \o WarnOld(PtParamNames, old_args)
    /\ kwargs' = FoldOld(PtParamNames, old_args, kwargs)
    /\ Goto("pt_figure")
    /\ UNCHANGED <<flags, fn, calls, surface, piVars, hVars, pmVars, call_kwargs, old_args, tree_index,
                   tree_infos, tree_info, show_info, feature_names, graph, stack>>

\* Lines 106-109, 215-218, 310-313, 545-548: with no ax given, check figsize
\* and create a figure.
NewFigure(ax_given, figsize, next) ==
    IF ax_given
    THEN Goto(next) /\ UNCHANGED <<calls, surface>>
    ELSE IF figsize # NoneObj /\ NotTupleOf2Elements(figsize)
    THEN Raise(Exc("TypeError", "figsize must be a tuple of 2 elements."))
         /\ UNCHANGED <<calls, surface>>
    ELSE Goto(next) /\ Log(<<"subplots">>) /\ figure' = TRUE /\ ax' = ax

pt_figure ==
    /\ pc = "pt_figure"
    /\ \E ax_given \in BOOLEAN, figsize \in PairArgs :
          NewFigure(ax_given, figsize, "pt_call")
    /\ UNCHANGED <<flags, fn, warned, piVars, hVars, pmVars, treeVars>>

\* Lines 550-551: the call of create_tree_digraph with **kwargs.
pt_call ==
    /\ pc = "pt_call"
    /\ old_args' = BindOld(kwargs)
    /\ kwargs' = BindRest(kwargs)
    /\ Goto("ctd_check_booster")
    /\ UNCHANGED <<flags, fn, calls, warned, surface, piVars, hVars, pmVars, call_kwargs,
                   tree_index, tree_infos, tree_info, show_info, feature_names, graph,
                   stack>>

\* Lines 553-560.
pt_render ==
    /\ pc = "pt_render"
    /\ Log(<<"pipe", "imread", "imshow", "axis">>)
    /\ ax' = [ax EXCEPT !.image = TRUE]
    /\ Return
    /\ UNCHANGED <<flags, fn, warned, figure, piVars, hVars, pmVars, treeVars>>

----------------------------------------------------------------------------
(* Numbers *)

Max(S) == CHOOSE x \in S : \A y \in S : y <= x
Min(S) == CHOOSE x \in S : \A y \in S : x <= y

\* v * 1.1 and v * 0.2, in tenths, of a number v given in units.
Times1_1(v) == 11 * v
Times0_2(v) == 2 * v
Tenths(v)   == 10 * v

\* Lines 122-132, 222-234, 346-357: a given limit must be a tuple of 2
\* elements, a missing one takes the default.
CheckedLimit(given, default) == IF given # NoneObj THEN given.items ELSE default

\* ax.set_xlim / ax.set_ylim with that limit; `defaulted` keeps which limits
\* the code computed itself.
WithLimit(a, which, given, default) ==
    LET auto == IF given = NoneObj THEN a.defaulted \cup {which} ELSE a.defaulted
    IN  IF which = "xlim"
        THEN [a EXCEPT !.xlim = CheckedLimit(given, default), !.defaulted = auto]
        ELSE [a EXCEPT !.ylim = CheckedLimit(given, default), !.defaulted = auto]
LimitError(given, obj_name) ==
    Exc("TypeError", IF obj_name = "xlim" THEN "xlim must be a tuple of 2 elements."
                     ELSE "ylim must be a tuple of 2 elements.")

\* Lines 134-140, 236-244, 362-368, with title, xlabel and ylabel at their defaults.
Finish == <<"set_title", "set_xlabel", "set_ylabel", "grid">>

----------------------------------------------------------------------------
(* plot_importance *)

\* Importance vectors booster.feature_importance() may return; the feature
\* names are 1..n.
ImportanceVectors == UNION {[1..n -> 0..MaxValue] : n \in 0..MaxFeatures}

\* Optional int: <<>> is None, <<n>> is the int n.
MaxNumFeaturesChoices == {<<>>} \cup {<<n>> : n \in 0..MaxFeatures}

\* zip_(feature_name, importance)
Zip(imp) == [i \in 1..Len(imp) |-> <<i, imp[i]>>]

RECURSIVE InsertByValue(_, _)
\* x placed behind every element whose value is not greater (stable).
InsertByValue(x, sorted) ==
    IF sorted = <<>> THEN <<x>>
    ELSE IF Head(sorted)[2] <= x[2] THEN <<Head(sorted)>> \o InsertByValue(x, Tail(sorted))
    ELSE <<x>> \o sorted

RECURSIVE SortedUpTo(_, _)
SortedUpTo(pairs, n) ==
    IF n = 0 THEN <<>> ELSE InsertByValue(pairs[n], SortedUpTo(pairs, n - 1))

\* sorted(pairs, key=lambda x: x[1]) (line 99)
SortedByValue(pairs) == SortedUpTo(pairs, Len(pairs))

\* Lines 100-101.
DropZero(ts, ignore) == IF ignore THEN SelectSeq(ts, LAMBDA x : x[2] > 0) ELSE ts

\* tuples[-n:] for n > 0
LastN(ts, n) == IF n >= Len(ts) THEN ts ELSE SubSeq(ts, Len(ts) - n + 1, Len(ts))

\* Lines 102-103.
Truncate(ts, max_num) ==
    IF max_num # <<>> /\ max_num[1] > 0 THEN LastN(ts, max_num[1]) ELSE ts

\* Lines 99-103.
SelectTuples(imp, ignore, max_num) ==
    Truncate(DropZero(SortedByValue(Zip(imp)), ignore), max_num)

Labels(ts) == [i \in 1..Len(ts) |-> ts[i][1]]
Values(ts) == [i \in 1..Len(ts) |-> ts[i][2]]

call_plot_importance ==
    /\ pc = "idle"
    /\ fn' = "plot_importance"
    /\ importance_type' \in {"split", "gain"}
    /\ max_num_features' \in MaxNumFeaturesChoices
    /\ ignore_zero' \in BOOLEAN
    /\ Goto("pi_import")
    /\ UNCHANGED <<flags, calls, warned, surface, importance, tuples, hVars, pmVars,
                   treeVars>>

\* Lines 83-86.
pi_import ==
    /\ pc = "pi_import"
    /\ IF MATPLOTLIB_INSTALLED
       THEN Goto("pi_check_booster")
       ELSE Raise(Exc("ImportError", "You must install matplotlib to plot importance."))
    /\ UNCHANGED <<flags, fn, calls, warned, surface, piVars, hVars, pmVars, treeVars>>

\* Lines 88-91.
pi_check_booster ==
    /\ pc = "pi_check_booster"
    /\ \E btype \in BoosterTypes :
         /\ Log(<<"isinstance">>)
         /\ IF btype \in {"LGBMModel", "Booster"}
            THEN Goto("pi_fetch")
            ELSE Raise(Exc("TypeError", "booster must be Booster or LGBMModel."))
    /\ UNCHANGED <<flags, fn, warned, surface, piVars, hVars, pmVars, treeVars>>

\* Lines 93-97.
pi_fetch ==
    /\ pc = "pi_fetch"
    /\ Log(<<"feature_importance", "feature_name">>)
    /\ importance' \in ImportanceVectors
    /\ IF Len(importance') = 0
       THEN Raise(Exc("ValueError", "Booster's feature_importance is empty."))
       ELSE Goto("pi_select")
    /\ UNCHANGED <<flags, fn, warned, surface, importance_type, max_num_features,
                   ignore_zero, tuples, hVars, pmVars, treeVars>>

\* Lines 99-104: `labels, values = zip_(*tuples)` cannot unpack an empty zip.
pi_select ==
    /\ pc = "pi_select"
    /\ tuples' = SelectTuples(importance, ignore_zero, max_num_features)
    /\ IF tuples' = <<>>
       THEN Raise(Exc("ValueError", "not enough values to unpack (expected 2, got 0)"))
       ELSE Goto("pi_figure")
    /\ UNCHANGED <<flags, fn, calls, warned, surface, importance_type, max_num_features,
                   ignore_zero, importance, hVars, pmVars, treeVars>>

\* Lines 106-109.
pi_figure ==
    /\ pc = "pi_figure"
    /\ \E ax_given \in BOOLEAN, figsize \in PairArgs :
          NewFigure(ax_given, figsize, "pi_draw")
    /\ UNCHANGED <<flags, fn, warned, piVars, hVars, pmVars, treeVars>>

\* Lines 111-120: the bars, one text per bar, the tick labels.
pi_draw ==
    /\ pc = "pi_draw"
    /\ LET values == Values(tuples)
           ylocs  == [i \in 1..Len(values) |-> i - 1]
       IN  /\ ax' = [ax EXCEPT
                       !.bars  = [i \in 1..Len(values) |->
                                    [at |-> Tenths(ylocs[i]), size |-> values[i],
                                     label |-> Labels(tuples)[i]]],
                       !.texts = [i \in 1..Len(values) |->
                                    [x |-> Tenths(values[i] + 1), y |-> Tenths(ylocs[i]),
                                     s |-> <<IF importance_type = "gain"
                                             THEN "float2str" ELSE "raw", values[i]>>]]]
           /\ Log(<<"barh">> \o [i \in 1..Len(values) |-> "text"]
                  \o <<"set_yticks", "set_yticklabels">>)
    /\ Goto("pi_xlim")
    /\ UNCHANGED <<flags, fn, warned, figure, piVars, hVars, pmVars, treeVars>>

\* Lines 122-126.
pi_xlim ==
    /\ pc = "pi_xlim"
    /\ \E xlim \in PairArgs :
         IF xlim # NoneObj /\ NotTupleOf2Elements(xlim)
         THEN Raise(LimitError(xlim, "xlim")) /\ UNCHANGED <<calls, ax>>
         ELSE /\ ax' = WithLimit(ax, "xlim", xlim,
                              <<0, Times1_1(Max(Range(Values(tuples))))>>)
              /\ Log(<<"set_xlim">>)
              /\ Goto("pi_ylim")
    /\ UNCHANGED <<flags, fn, warned, figure, piVars, hVars, pmVars, treeVars>>

\* Lines 128-132.
pi_ylim ==
    /\ pc = "pi_ylim"
    /\ \E ylim \in PairArgs :
         IF ylim # NoneObj /\ NotTupleOf2Elements(ylim)
         THEN Raise(LimitError(ylim, "ylim")) /\ UNCHANGED <<calls, ax>>
         ELSE /\ ax' = WithLimit(ax, "ylim", ylim,
                              <<Tenths(-1), Tenths(Len(tuples))>>)
              /\ Log(<<"set_ylim">>)
              /\ Goto("pi_finish")
    /\ UNCHANGED <<flags, fn, warned, figure, piVars, hVars, pmVars, treeVars>>

\* Lines 134-141.
pi_finish ==
    /\ pc = "pi_finish"
    /\ Log(Finish)
    /\ ax' = [ax EXCEPT !.ylabel = "Features"]
    /\ Return
    /\ UNCHANGED <<flags, fn, warned, figure, piVars, hVars, pmVars, treeVars>>

----------------------------------------------------------------------------
(* plot_split_value_histogram *)

\* Bin counts get_split_value_histogram may return.
Histograms == UNION {[1..n -> 0..MaxValue] : n \in 1..MaxBins}

\* Bin edges of n unit-wide bins from 0, in tenths: len(edges) = n + 1.
EdgesFor(n) == [i \in 1..(n + 1) |-> Tenths(i - 1)]

\* NoSplits testing the number of bins instead of the non-zero counts.
NoSplits_ByLength(h) == Len(h) = 0

\* np.count_nonzero(hist) == 0 (line 209)
NoSplits(h) == \A i \in 1..Len(h) : h[i] = 0

\* width_coef * (bins[1] - bins[0]) with width_coef at its default 0.8 (line 212)
BarWidth(edges) == (8 * (edges[2] - edges[1])) \div 10

\* (bins[:-1] + bins[1:]) / 2 (line 213)
Centred(edges) == [i \in 1..(Len(edges) - 1) |-> (edges[i] + edges[i + 1]) \div 2]

call_plot_split_value_histogram ==
    /\ pc = "idle"
    /\ fn' = "plot_split_value_histogram"
    /\ Goto("h_import")
    /\ UNCHANGED <<flags, calls, warned, surface, piVars, hVars, pmVars, treeVars>>

\* Lines 197-201.
h_import ==
    /\ pc = "h_import"
    /\ IF MATPLOTLIB_INSTALLED
       THEN Goto("h_check_booster")
       ELSE Raise(Exc("ImportError",
                      "You must install matplotlib to plot split value histogram."))
    /\ UNCHANGED <<flags, fn, calls, warned, surface, piVars, hVars, pmVars, treeVars>>

\* Lines 203-206.
h_check_booster ==
    /\ pc = "h_check_booster"
    /\ \E btype \in BoosterTypes :
         /\ Log(<<"isinstance">>)
         /\ IF btype \in {"LGBMModel", "Booster"}
            THEN Goto("h_fetch")
            ELSE Raise(Exc("TypeError", "booster must be Booster or LGBMModel."))
    /\ UNCHANGED <<flags, fn, warned, surface, piVars, hVars, pmVars, treeVars>>

\* Lines 208-213.
h_fetch ==
    /\ pc = "h_fetch"
    /\ Log(<<"get_split_value_histogram">>)
    /\ hist' \in Histograms
    /\ bins' = EdgesFor(Len(hist'))
    /\ IF NoSplits(hist')
       THEN Raise(Exc("ValueError", "Cannot plot split value histogram, because feature was not used in splitting"))
       ELSE Goto("h_figure")
    /\ UNCHANGED <<flags, fn, warned, surface, piVars, pmVars, treeVars>>

\* Lines 215-218.
h_figure ==
    /\ pc = "h_figure"
    /\ \E ax_given \in BOOLEAN, figsize \in PairArgs :
          NewFigure(ax_given, figsize, "h_draw")
    /\ UNCHANGED <<flags, fn, warned, piVars, hVars, pmVars, treeVars>>

\* Line 220.
h_draw ==
    /\ pc = "h_draw"
    /\ ax' = [ax EXCEPT !.bars = [i \in 1..Len(hist) |->
                                    [at |-> Centred(bins)[i], size |-> hist[i],
                                     label |-> BarWidth(bins)]]]
    /\ Log(<<"bar">>)
    /\ Goto("h_xlim")
    /\ UNCHANGED <<flags, fn, warned, figure, piVars, hVars, pmVars, treeVars>>

\* Lines 222-227.
h_xlim ==
    /\ pc = "h_xlim"
    /\ \E xlim \in PairArgs :
         IF xlim # NoneObj /\ NotTupleOf2Elements(xlim)
         THEN Raise(LimitError(xlim, "xlim")) /\ UNCHANGED <<calls, ax>>
         ELSE /\ LET range_result == bins[Len(bins)] - bins[1]
                 IN  ax' = WithLimit(ax, "xlim", xlim,
                              <<bins[1] - Times0_2(range_result) \div 10,
                                    bins[Len(bins)] + Times0_2(range_result) \div 10>>)
              /\ Log(<<"set_xlim">>)
              /\ Goto("h_ylim")
    /\ UNCHANGED <<flags, fn, warned, figure, piVars, hVars, pmVars, treeVars>>

\* Lines 229-234.
h_ylim ==
    /\ pc = "h_ylim"
    /\ \E ylim \in PairArgs :
         IF ylim # NoneObj /\ NotTupleOf2Elements(ylim)
         THEN Raise(LimitError(ylim, "ylim")) /\ calls' = calls \o <<"set_major_locator">>
              /\ ax' = ax
         ELSE /\ ax' = WithLimit(ax, "ylim", ylim,
                              <<0, Times1_1(Max(Range(hist)))>>)
              /\ Log(<<"set_major_locator", "set_ylim">>)
              /\ Goto("h_finish")
    /\ UNCHANGED <<flags, fn, warned, figure, piVars, hVars, pmVars, treeVars>>

\* Lines 236-245.
h_finish ==
    /\ pc = "h_finish"
    /\ Log(Finish)
    /\ ax' = [ax EXCEPT !.ylabel = "Count"]
    /\ Return
    /\ UNCHANGED <<flags, fn, warned, figure, piVars, hVars, pmVars, treeVars>>

----------------------------------------------------------------------------
(* plot_metric *)

(* A dict is an object on the heap: the sequence of its <<key, value>> items *)
(* in iteration order.  An evaluation record is a dict from dataset name to  *)
(* the id of a dict from metric name to the sequence of per-iteration values. *)

Keys(d)      == [i \in 1..Len(d) |-> d[i][1]]
HasKey(d, k) == k \in Range(Keys(d))
Get(d, k)    == d[CHOOSE i \in 1..Len(d) : d[i][1] = k][2]

\* dict.popitem(): the pair removed and the dict left.  Which pair goes
\* depends on the interpreter: the last one inserted where dicts keep
\* insertion order (LIFO), the first one in iteration order where they are
\* hash tables scanned from slot 0.
PopitemOrders == {"last", "first"}
PopitemPair(d, order) == IF order = "last" THEN d[Len(d)] ELSE d[1]
PopitemRest(d, order) ==
    IF order = "last" THEN SubSeq(d, 1, Len(d) - 1) ELSE SubSeq(d, 2, Len(d))

\* copy.copy in the place of copy.deepcopy: a new outer dict over the same inner dicts.
Deepcopy_Shallow(h, id) == h \o <<h[id]>>

\* copy.deepcopy of the two-level dict h[id]: the heap with the copies of the
\* inner dicts and of the outer dict appended; the copy is the last object.
Deepcopy(h, id) ==
    LET outer == h[id]
        n     == Len(outer)
    IN  h \o [i \in 1..n |-> h[outer[i][2]]]
          \o <<[i \in 1..n |-> <<outer[i][1], Len(h) + i>>]>>

\* Evaluation records a caller may hold: no, one or two datasets recording
\* the same one or two metrics in the same order over two iterations; in a
\* dataset the l2 values are the l1 values plus one.
DatasetLists == {<<>>, <<"training">>, <<"training", "valid_1">>}
MetricLists  == {<<"l1">>, <<"l1", "l2">>, <<"l2", "l1">>}
Iterations   == 1..2
Shifted(traj, m) == [i \in 1..Len(traj) |-> traj[i] + (IF m = "l2" THEN 1 ELSE 0)]

RecordHeap(ds, ms, base) ==
    <<[i \in 1..Len(ds) |-> <<ds[i], i + 1>>]>>
    \o [i \in 1..Len(ds) |-> [j \in 1..Len(ms) |-> <<ms[j], Shifted(base[i], ms[j])>>]]

RecordHeaps ==
    {RecordHeap(<<>>, <<"l1">>, <<>>)} \cup
    UNION {{RecordHeap(ds, ms, base) : base \in [1..Len(ds) -> [Iterations -> 0..MaxResult]]} :
             ds \in DatasetLists \ {<<>>}, ms \in MetricLists}

StrObj(s) == [type |-> "str", items |-> s]

\* The content of the two-level dict h[id]: per dataset, its metrics and their values.
RecordValue(h, id) == [i \in 1..Len(h[id]) |-> <<h[id][i][1], h[h[id][i][2]]>>]

\* The objects the caller holds: the record and its inner dicts.  The copy a
\* call made is a local of that call and is gone once the call has ended.
CallerObjects(h, id) == SubSeq(h, 1, 1 + Len(h[id]))
IterObj(s) == [type |-> "iterator", items |-> s]

DatasetNamesChoices ==
    {NoneObj, ListObj(<<>>), ListObj(<<"training">>), ListObj(<<"valid_1", "training">>),
     StrObj(<<"training">>)}

\* RunningMax forgetting the datasets plotted before.
RunningMax_LastOnly(res, so_far) == Max(Range(res))

\* Line 341: the maximum and the minimum kept over the datasets plotted so far.
RunningMax(res, so_far) == Max({Max(Range(res)), so_far})
RunningMin(res, so_far) == Min({Min(Range(res)), so_far})

\* Lines 355-356.
PaddedRange(lo, hi) ==
    LET range_result == hi - lo
    IN  <<Tenths(lo) - Times0_2(range_result), Tenths(hi) + Times0_2(range_result)>>

\* ax.plot(x_, results, label=name) with x_ = range_(num_iteration)
Line(label, n, ys) == [label |-> label, x |-> [i \in 1..n |-> i - 1], y |-> ys]

call_plot_metric ==
    /\ pc = "idle"
    /\ fn' = "plot_metric"
    /\ heap' \in RecordHeaps
    /\ booster' = 1
    /\ metric' \in {None, "l2"}
    /\ dataset_names' \in DatasetNamesChoices
    /\ call_kwargs' = [metric |-> metric', dataset_names |-> dataset_names',
                        record |-> RecordValue(heap', booster')]
    /\ Goto("pm_import")
    /\ UNCHANGED <<flags, calls, warned, surface, piVars, hVars, eval_results, name,
                   results, num_iteration, max_result, min_result, old_args, kwargs,
                   tree_index, tree_infos, tree_info, show_info, feature_names, graph,
                   stack>>

pmRest == <<old_args, kwargs, tree_index, tree_infos, tree_info, show_info,
            feature_names, graph, stack, call_kwargs, piVars, hVars, flags, fn>>

\* The caller of a plot_metric call that has ended, with metric=None, calls
\* plot_metric again with the same arguments on the record it still holds.
call_plot_metric_again ==
    /\ pc = "done" /\ fn = "plot_metric"
    /\ picked # <<>> /\ Len(picked) < MaxCalls
    /\ heap' = CallerObjects(heap, booster)
    /\ metric' = call_kwargs.metric
    /\ dataset_names' = call_kwargs.dataset_names
    /\ eval_results' = 0 /\ name' = None /\ results' = <<>>
    /\ num_iteration' = 0 /\ max_result' = 0 /\ min_result' = 0
    /\ figure' = FALSE /\ ax' = BlankAxes
    /\ calls' = <<>> /\ warned' = <<>> /\ err' = NoErr /\ returned' = FALSE
    /\ pc' = "pm_import"
    /\ UNCHANGED <<flags, fn, booster, piVars, hVars, treeVars>>

\* Lines 293-296.
pm_import ==
    /\ pc = "pm_import"
    /\ IF MATPLOTLIB_INSTALLED
       THEN Goto("pm_copy")
       ELSE Raise(Exc("ImportError", "You must install matplotlib to plot metric."))
    /\ UNCHANGED <<calls, warned, surface, pmVars, pmRest>>

\* Lines 298-308.
pm_copy ==
    /\ pc = "pm_copy"
    /\ \E btype \in BoosterTypes :
         /\ Log(<<"isinstance">>)
         /\ IF btype \in {"LGBMModel", "dict"}
            THEN /\ heap' = Deepcopy(heap, booster)
                 /\ eval_results' = Len(heap')
                 /\ IF Len(heap'[eval_results']) = 0
                    THEN Raise(Exc("ValueError", "eval results cannot be empty."))
                    ELSE Goto("pm_figure")
            ELSE /\ Raise(Exc("TypeError", "booster must be dict or LGBMModel."))
                 /\ UNCHANGED <<heap, eval_results>>
    /\ UNCHANGED <<warned, surface, booster, dataset_names, metric, name, results,
                   num_iteration, max_result, min_result, pmRest>>

\* Lines 310-313.
pm_figure ==
    /\ pc = "pm_figure"
    /\ \E ax_given \in BOOLEAN, figsize \in PairArgs :
          NewFigure(ax_given, figsize, "pm_dataset_names")
    /\ UNCHANGED <<warned, pmVars, pmRest>>

\* Lines 315-320.
pm_dataset_names ==
    /\ pc = "pm_dataset_names"
    /\ IF dataset_names = NoneObj
       THEN /\ dataset_names' = IterObj(Keys(heap[eval_results]))
            /\ Goto("pm_first")
       ELSE IF dataset_names.type \notin {"list", "tuple", "set"}
               \/ Len(dataset_names.items) = 0
       THEN /\ Raise(Exc("ValueError", "dataset_names should be iterable and cannot be empty"))
            /\ UNCHANGED dataset_names
       ELSE /\ dataset_names' = IterObj(dataset_names.items)
            /\ Goto("pm_first")
    /\ UNCHANGED <<calls, warned, surface, heap, booster, eval_results, metric, name,
                   results, num_iteration, max_result, min_result, pmRest>>

\* Lines 322-336: the first dataset named; it fixes the metric.
pm_first ==
    /\ pc = "pm_first"
    /\ name' = Head(dataset_names.items)
    /\ dataset_names' = IterObj(Tail(dataset_names.items))
    /\ IF ~HasKey(heap[eval_results], name')
       THEN /\ Raise(Exc("KeyError", name'))
            /\ UNCHANGED <<calls, warned, ax, heap, metric, results, num_iteration,
                           max_result, min_result, dict_order, picked>>
       ELSE LET metrics_for_one == Get(heap[eval_results], name')
                num_metric      == Len(heap[metrics_for_one])
            IN  IF metric # None /\ ~HasKey(heap[metrics_for_one], metric)
                THEN /\ Raise(Exc("KeyError", "No given metric in eval results."))
                     /\ UNCHANGED <<calls, warned, ax, heap, metric, results,
                                    num_iteration, max_result, min_result, dict_order,
                                    picked>>
                ELSE IF metric = None /\ num_metric = 0
                THEN /\ Raise(Exc("KeyError", "popitem(): dictionary is empty"))
                     /\ UNCHANGED <<calls, warned, ax, heap, metric, results,
                                    num_iteration, max_result, min_result, dict_order,
                                    picked>>
                ELSE /\ IF metric = None
                        THEN /\ warned' = warned \o
                                  (IF num_metric > 1
                                   THEN <<"more than one metric available, picking one to plot.">>
                                   ELSE <<>>)
                             /\ \E order \in (IF dict_order = None THEN PopitemOrders
                                                                     ELSE {dict_order}) :
                                  /\ dict_order' = order
                                  /\ metric' = PopitemPair(heap[metrics_for_one], order)[1]
                                  /\ results' = PopitemPair(heap[metrics_for_one], order)[2]
                                  /\ heap' = [heap EXCEPT ![metrics_for_one] =
                                                 PopitemRest(@, order)]
                             /\ picked' = Append(picked, metric')
                        ELSE /\ results' = Get(heap[metrics_for_one], metric)
                             /\ UNCHANGED <<warned, metric, heap, dict_order, picked>>
                     /\ num_iteration' = Len(results')
                     /\ max_result' = Max(Range(results'))
                     /\ min_result' = Min(Range(results'))
                     /\ ax' = [ax EXCEPT !.lines =
                                  Append(@, Line(name', num_iteration', results'))]
                     /\ Log(<<"plot">>)
                     /\ Goto("pm_rest")
    /\ UNCHANGED <<figure, booster, eval_results, old_args, kwargs, tree_index, tree_infos,
                   tree_info, show_info, feature_names, graph, stack, call_kwargs, piVars,
                   hVars, MATPLOTLIB_INSTALLED, GRAPHVIZ_INSTALLED, fn>>

\* Lines 338-342: one turn of the loop over the remaining datasets.
pm_next ==
    /\ pc = "pm_rest" /\ dataset_names.items # <<>>
    /\ name' = Head(dataset_names.items)
    /\ dataset_names' = IterObj(Tail(dataset_names.items))
    /\ IF ~HasKey(heap[eval_results], name')
       THEN /\ Raise(Exc("KeyError", name'))
            /\ UNCHANGED <<calls, ax, results, max_result, min_result>>
       ELSE LET metrics_for_one == Get(heap[eval_results], name')
            IN  IF ~HasKey(heap[metrics_for_one], metric)
                THEN /\ Raise(Exc("KeyError", metric))
                     /\ UNCHANGED <<calls, ax, results, max_result, min_result>>
                ELSE /\ results' = Get(heap[metrics_for_one], metric)
                     /\ max_result' = RunningMax(results', max_result)
                     /\ min_result' = RunningMin(results', min_result)
                     /\ ax' = [ax EXCEPT !.lines =
                                  Append(@, Line(name', num_iteration, results'))]
                     /\ Log(<<"plot">>)
                     /\ Goto("pm_rest")
    /\ UNCHANGED <<warned, figure, heap, booster, eval_results, metric, num_iteration,
                   pmRest>>

\* Line 344.
pm_legend ==
    /\ pc = "pm_rest" /\ dataset_names.items = <<>>
    /\ ax' = [ax EXCEPT !.legend = [i \in 1..Len(ax.lines) |-> ax.lines[i].label]]
    /\ Log(<<"legend">>)
    /\ Goto("pm_xlim")
    /\ UNCHANGED <<warned, figure, pmVars, pmRest>>

\* Lines 346-350.
pm_xlim ==
    /\ pc = "pm_xlim"
    /\ \E xlim \in PairArgs :
         IF xlim # NoneObj /\ NotTupleOf2Elements(xlim)
         THEN Raise(LimitError(xlim, "xlim")) /\ UNCHANGED <<calls, ax>>
         ELSE /\ ax' = WithLimit(ax, "xlim", xlim,
                              <<0, Tenths(num_iteration)>>)
              /\ Log(<<"set_xlim">>)
              /\ Goto("pm_ylim")
    /\ UNCHANGED <<warned, figure, pmVars, pmRest>>

\* Lines 352-357.
pm_ylim ==
    /\ pc = "pm_ylim"
    /\ \E ylim \in PairArgs :
         IF ylim # NoneObj /\ NotTupleOf2Elements(ylim)
         THEN Raise(LimitError(ylim, "ylim")) /\ UNCHANGED <<calls, ax>>
         ELSE /\ ax' = WithLimit(ax, "ylim", ylim,
                              PaddedRange(min_result, max_result))
              /\ Log(<<"set_ylim">>)
              /\ Goto("pm_finish")
    /\ UNCHANGED <<warned, figure, pmVars, pmRest>>

\* Lines 359-369, with ylabel at its default 'auto': the metric names the y axis.
pm_finish ==
    /\ pc = "pm_finish"
    /\ Log(Finish)
    /\ ax' = [ax EXCEPT !.ylabel = metric]
    /\ Return
    /\ UNCHANGED <<warned, figure, pmVars, pmRest>>

----------------------------------------------------------------------------

Next ==
    \/ call_create_tree_digraph
    \/ ctd_check_booster
    \/ ctd_deprecated
    \/ ctd_dump_model
    \/ ctd_tree_index
    \/ tg_import
    \/ tg_digraph
    \/ add_node
    \/ add_left
    \/ add_right
    \/ add_edge
    \/ tg_return
    \/ call_plot_importance
    \/ pi_import
    \/ pi_check_booster
    \/ pi_fetch
    \/ pi_select
    \/ pi_figure
    \/ pi_draw
    \/ pi_xlim
    \/ pi_ylim
    \/ pi_finish
    \/ call_plot_split_value_histogram
    \/ h_import
    \/ h_check_booster
    \/ h_fetch
    \/ h_figure
    \/ h_draw
    \/ h_xlim
    \/ h_ylim
    \/ h_finish
    \/ call_plot_metric
    \/ call_plot_metric_again
    \/ pm_import
    \/ pm_copy
    \/ pm_figure
    \/ pm_dataset_names
    \/ pm_first
    \/ pm_next
    \/ pm_legend
    \/ pm_xlim
    \/ pm_ylim
    \/ pm_finish
    \/ call_plot_tree
    \/ pt_import
    \/ pt_deprecated
    \/ pt_figure
    \/ pt_call
    \/ pt_render

Spec == Init /\ [][Next]_vars

----------------------------------------------------------------------------
(* Properties *)

TreeCall   == fn \in {"create_tree_digraph", "plot_tree"}
T          == tree_info.tree_structure
Body       == graph.body
ValidTypes == {"<=", "=="}
WellFormed(root) == \A n \in Internals(root) : n.decision_type \in ValidTypes
Malformed(root)  == {n \in Internals(root) : n.decision_type \notin ValidTypes}

\* The walk over the whole tree has ended without an exception.
WalkDone == graph.made /\ stack = <<>> /\ err = NoErr

EdgesFrom(n) == {e \in Edges(graph) : Body[e].tail_name = n}
EdgesInto(n) == {e \in Edges(graph) : Body[e].head_name = n}
NodesNamed(n) == {i \in Nodes(graph) : Body[i].name = n}

\* C1: after the walk of a well-formed tree with I internal nodes and L
\* leaves the graph holds I + L nodes with pairwise distinct names, one per
\* tree node, and 2*I edges: two out of every internal node (to its left and
\* to its right child), none out of a leaf, none into the root and exactly
\* one into every other node.
C1_NodesAndEdges ==
    (WalkDone /\ WellFormed(T)) =>
        /\ Cardinality(Nodes(graph)) = Cardinality(Internals(T)) + Cardinality(Leaves(T))
        /\ \A i, j \in Nodes(graph) : Body[i].name = Body[j].name => i = j
        /\ {Body[i].name : i \in Nodes(graph)} = {NodeName(t) : t \in Subtrees(T)}
        /\ Cardinality(Edges(graph)) = 2 * Cardinality(Internals(T))
        /\ \A t \in Internals(T) :
              /\ Cardinality(EdgesFrom(NodeName(t))) = 2
              /\ {Body[e].head_name : e \in EdgesFrom(NodeName(t))}
                   = {NodeName(t.left_child), NodeName(t.right_child)}
        /\ \A t \in Leaves(T) : EdgesFrom(NodeName(t)) = {}
        /\ \A t \in Subtrees(T) :
              Cardinality(EdgesInto(NodeName(t))) = IF t = T THEN 0 ELSE 1

\* A finished walk of a well-formed tree with two internal nodes, returned to the caller.
C1_Witness ==
    /\ fn = "create_tree_digraph" /\ WalkDone /\ returned
    /\ WellFormed(T) /\ Cardinality(Internals(T)) = 2

\* The label the claim expects on the edge from a node of that decision type
\* to its left or right child.
ExpectedLabel(decision_type, side) ==
    IF decision_type = "<=" THEN (IF side = "left" THEN "<=" ELSE ">")
    ELSE IF decision_type = "==" THEN (IF side = "left" THEN "is" ELSE "isn't")
    ELSE "no edge"

HasEdge(p, child, label) ==
    \E e \in Edges(graph) :
        /\ Body[e].tail_name = NodeName(p)
        /\ Body[e].head_name = NodeName(child)
        /\ Body[e].label = <<label>>

\* C2: every edge registered so far leaves an internal node p and carries
\* '<=' (left child) or '>' (right child) when p's decision type is '<=',
\* 'is' or "isn't" when it is '=='; the label is fixed by p's decision type
\* and the side alone.  After the walk of a well-formed tree every internal
\* node has both of its labelled edges.
C2_EdgeLabels ==
    graph.made =>
        /\ \A e \in Edges(graph) :
              \E p \in Internals(T) :
                  /\ Body[e].tail_name = NodeName(p)
                  /\ \/ /\ Body[e].head_name = NodeName(p.left_child)
                        /\ Body[e].label = <<ExpectedLabel(p.decision_type, "left")>>
                     \/ /\ Body[e].head_name = NodeName(p.right_child)
                        /\ Body[e].label = <<ExpectedLabel(p.decision_type, "right")>>
        /\ (WalkDone /\ WellFormed(T)) =>
              \A p \in Internals(T) :
                  /\ HasEdge(p, p.left_child, ExpectedLabel(p.decision_type, "left"))
                  /\ HasEdge(p, p.right_child, ExpectedLabel(p.decision_type, "right"))

\* A finished walk of a tree where a '==' node hangs below a '<=' node.
C2_Witness ==
    /\ WalkDone /\ WellFormed(T)
    /\ \E p \in Internals(T) :
          /\ p.decision_type = "<="
          /\ IsSplit(p.right_child)
          /\ p.right_child.decision_type = "=="

\* C3: when an entry point raises the 'not installed' ImportError for a
\* missing backend, nothing else has been done before it: no type check, no
\* accessor call (dump_model, feature_importance, histogram), no
\* deprecation warning, no tree-index check, no figure.
C3_ImportErrorFirst ==
    err.type = "ImportError" => (calls = <<>> /\ warned = <<>> /\ ~figure)

DrawingCalls == {"barh", "bar", "text", "plot", "legend", "imshow"}
NothingDrawn ==
    /\ ax = BlankAxes
    /\ Range(calls) \cap DrawingCalls = {}

ValidationErrors ==
    {Exc("TypeError", "booster must be Booster or LGBMModel."),
     Exc("TypeError", "booster must be dict or LGBMModel."),
     Exc("TypeError", "figsize must be a tuple of 2 elements."),
     Exc("TypeError", "xlim must be a tuple of 2 elements."),
     Exc("TypeError", "ylim must be a tuple of 2 elements."),
     Exc("ValueError", "dataset_names should be iterable and cannot be empty")}

\* C4: when a validation error is raised, no figure has been created and
\* nothing has been drawn on the axes.
C4_ValidationBeforeRendering ==
    err \in ValidationErrors => (~figure /\ NothingDrawn)

EmptyImportance == Exc("ValueError", "Booster's feature_importance is empty.")
EmptyHistogram  == Exc("ValueError", "Cannot plot split value histogram, because feature was not used in splitting")
EmptyRecord     == Exc("ValueError", "eval results cannot be empty.")
NoGivenMetric   == Exc("KeyError", "No given metric in eval results.")
OutOfRange      == Exc("IndexError", "tree_index is out of range.")
EmptyResultErrors ==
    {EmptyImportance, EmptyHistogram, EmptyRecord, NoGivenMetric, OutOfRange}

\* The data fetch that precedes each empty-result error.
Fetched ==
    CASE fn = "plot_importance"            -> "feature_importance" \in Range(calls)
      [] fn = "plot_split_value_histogram" -> "get_split_value_histogram" \in Range(calls)
      [] fn = "plot_metric"                -> eval_results # 0
      [] TreeCall                          -> "dump_model" \in Range(calls)
      [] OTHER                             -> FALSE

\* The mapping of the dataset plotted first, in the caller's record.
FirstMapping == heap[Get(heap[booster], ax.lines[1].label)]

\* C5: an empty-result error is raised after the data fetch with nothing
\* drawn and no graph begun; and data that is empty in that sense is never
\* drawn: an empty importance vector, an all-zero histogram, an empty
\* evaluation record, a named metric the first dataset lacks, a tree index
\* past the dumped trees.
C5_EmptyResultBeforeDrawing ==
    /\ err \in EmptyResultErrors => (Fetched /\ NothingDrawn /\ graph = NoGraph)
    /\ (fn = "plot_importance" /\ Fetched /\ importance = <<>>) =>
          (pc = "done" /\ err = EmptyImportance)
    /\ (fn = "plot_split_value_histogram" /\ Fetched /\ \A i \in 1..Len(hist) : hist[i] = 0) =>
          (pc = "done" /\ err = EmptyHistogram)
    /\ (fn = "plot_metric" /\ Fetched /\ heap[eval_results] = <<>>) =>
          (pc = "done" /\ err = EmptyRecord)
    /\ (fn = "plot_metric" /\ call_kwargs.metric # None /\ ax.lines # <<>>) =>
          HasKey(FirstMapping, call_kwargs.metric)
    /\ (TreeCall /\ Fetched /\ tree_index >= Len(tree_infos) /\ pc # "ctd_tree_index") =>
          (pc = "done" /\ err = OutOfRange)

\* The histogram renderer raised on an all-zero histogram of two bins.
C5_Witness ==
    /\ fn = "plot_split_value_histogram" /\ err = EmptyHistogram
    /\ hist = <<0, 0>> /\ Fetched

\* C6: a tree with an internal node of unknown decision type, at any depth
\* and in either subtree, makes the call end with the ValueError and return
\* nothing; no node below a malformed node is ever registered, no edge runs
\* into or out of such a node's descendants, and none leaves the malformed
\* node itself.
C6_MalformedRaises ==
    graph.made =>
        /\ (pc = "done" /\ Malformed(T) # {}) =>
              /\ err = Exc("ValueError", "Invalid decision type in tree model.")
              /\ ~returned
              /\ ~ax.image
        /\ err.type = "ValueError" => (~returned /\ Malformed(T) # {})
        /\ \A m \in Malformed(T) :
              /\ EdgesFrom(NodeName(m)) = {}
              /\ \A d \in Subtrees(m) \ {m} :
                    /\ NodesNamed(NodeName(d)) = {}
                    /\ EdgesFrom(NodeName(d)) = {}
                    /\ EdgesInto(NodeName(d)) = {}

\* The walk raised at a malformed right child of the root, after the root
\* and its left subtree had been registered.
C6_Witness ==
    /\ graph.made /\ err.type = "ValueError"
    /\ IsSplit(T) /\ T.decision_type \in ValidTypes
    /\ T.right_child \in Malformed(T)
    /\ Len(Body) >= 4

\* C7: every deprecated parameter the caller set (old_strict=True included)
\* was warned about and reaches the graph constructor under its un-prefixed
\* name, with the value the caller's kwargs already held under that name if
\* any, else with the deprecated parameter's value.
C7_OldParamsFolded ==
    (TreeCall /\ graph.made) =>
        \A p \in CtdOldNames :
            (p \in DOMAIN call_kwargs /\ Truthy(call_kwargs[p])) =>
                /\ p \in Range(warned)
                /\ Unprefixed(p) \in DOMAIN graph.kwargs
                /\ graph.kwargs[Unprefixed(p)] =
                      IF Unprefixed(p) \in DOMAIN call_kwargs
                      THEN call_kwargs[Unprefixed(p)]
                      ELSE call_kwargs[p]

\* Features the zero filter retains, and the N of the claim.
Retained == {i \in 1..Len(importance) : ~ignore_zero \/ importance[i] > 0}
TopN     == IF max_num_features # <<>> /\ max_num_features[1] > 0
            THEN Min({max_num_features[1], Cardinality(Retained)})
            ELSE Cardinality(Retained)
Rendered == {ax.bars[i].label : i \in 1..Len(ax.bars)}

\* C8: for a non-empty importance vector, plot_importance renders min(N,
\* retained) bars (barh is called, also when nothing is retained): the
\* highest-importance retained features, in ascending order of importance.
C8_TopNBars ==
    (fn = "plot_importance" /\ pc = "done" /\ importance # <<>> /\ err.type # "TypeError") =>
        /\ "barh" \in Range(calls)
        /\ Len(ax.bars) = TopN
        /\ Cardinality(Rendered) = TopN
        /\ Rendered \subseteq Retained
        /\ \A i \in 1..Len(ax.bars) : ax.bars[i].size = importance[ax.bars[i].label]
        /\ \A r \in Rendered, o \in Retained \ Rendered : importance[o] <= importance[r]
        /\ \A i, j \in 1..Len(ax.bars) : i < j => ax.bars[i].size <= ax.bars[j].size

\* C9: with metric=None the metric plotted is the first key of the first
\* plotted dataset's mapping in the caller's record.
C9_FirstMetricPicked ==
    (fn = "plot_metric" /\ call_kwargs.metric = None /\ ax.lines # <<>>) =>
        metric = Keys(FirstMapping)[1]

AllPlotted == fn = "plot_metric" /\ ax.legend # <<>>
PlottedValues == UNION {Range(ax.lines[i].y) : i \in 1..Len(ax.lines)}

\* C10: once every dataset is plotted, each line holds the chosen metric's
\* values of its dataset, max_result and min_result are the maximum and the
\* minimum over all the lines, a defaulted y-range is
\* (min - 0.2*(max - min), max + 0.2*(max - min)) and a defaulted x-range is
\* (0, N), N the iteration count of the first line (limits in tenths).
C10_DefaultRanges ==
    AllPlotted =>
        /\ \A i \in 1..Len(ax.lines) :
              ax.lines[i].y = Get(heap[Get(heap[booster], ax.lines[i].label)], metric)
        /\ max_result = Max(PlottedValues)
        /\ min_result = Min(PlottedValues)
        /\ (ax.ylim # <<>> /\ "ylim" \in ax.defaulted) =>
              ax.ylim = <<10 * min_result - 2 * (max_result - min_result),
                          10 * max_result + 2 * (max_result - min_result)>>
        /\ (ax.xlim # <<>> /\ "xlim" \in ax.defaulted) =>
              ax.xlim = <<0, 10 * Len(ax.lines[1].y)>>

\* Two datasets plotted with default limits: the maximum comes from the
\* first line only and the minimum from the second only.
C10_Witness ==
    /\ AllPlotted /\ returned /\ Len(ax.lines) = 2
    /\ ax.defaulted = {"xlim", "ylim"}
    /\ Max(Range(ax.lines[1].y)) > Max(Range(ax.lines[2].y))
    /\ Min(Range(ax.lines[2].y)) < Min(Range(ax.lines[1].y))

RECURSIVE PreOrder(_)
\* Names of the nodes of a tree in depth-first pre-order: the root, the whole
\* left subtree, then the whole right subtree.
PreOrder(root) ==
    IF IsSplit(root)
    THEN <<NodeName(root)>> \o PreOrder(root.left_child) \o PreOrder(root.right_child)
    ELSE <<NodeName(root)>>

IsPrefix(s, t) == Len(s) <= Len(t) /\ SubSeq(t, 1, Len(s)) = s

\* Names of the graph nodes in the order of their registration.
NodeSeq ==
    LET ns == SelectSeq(Body, LAMBDA b : b.kind = "node")
    IN  [i \in 1..Len(ns) |-> ns[i].name]

\* The subtree of the walked tree whose root carries that node name.
SubtreeNamed(n) == CHOOSE t \in Subtrees(T) : NodeName(t) = n

NodeBefore(n, e) == \E i \in Nodes(graph) : i < e /\ Body[i].name = n
EdgeIntoBefore(n, e) == \E j \in Edges(graph) : j < e /\ Body[j].head_name = n

\* C11: at every point of a tree walk, also one that ends in an exception,
\* the graph nodes registered so far are an initial part of the tree's
\* depth-first pre-order (parent first, the whole left subtree before the
\* right one), and every registered edge comes after the node of its parent,
\* after the nodes of its child and of the child's whole subtree, and after
\* the edges into every node below the child; so both endpoints of every
\* registered edge are registered.
C11_EmissionOrder ==
    (TreeCall /\ graph.made) =>
        /\ IsPrefix(NodeSeq, PreOrder(T))
        /\ \A e \in Edges(graph) :
              /\ NodeBefore(Body[e].tail_name, e)
              /\ NodeBefore(Body[e].head_name, e)
              /\ \E c \in Subtrees(T) : NodeName(c) = Body[e].head_name
              /\ \A d \in Subtrees(SubtreeNamed(Body[e].head_name)) :
                    /\ NodeBefore(NodeName(d), e)
                    /\ d # SubtreeNamed(Body[e].head_name) => EdgeIntoBefore(NodeName(d), e)

\* In the middle of a walk: the root's left child is an internal node whose
\* subtree is walked and whose edge is registered, and the root's right
\* child is not registered yet.
C11_Witness ==
    /\ TreeCall /\ graph.made /\ stack # <<>> /\ err = NoErr
    /\ IsSplit(T) /\ IsSplit(T.left_child)
    /\ EdgesInto(NodeName(T.left_child)) # {}
    /\ NodesNamed(NodeName(T.right_child)) = {}
    /\ Len(Body) = 7

\* C12: throughout a plot_metric call and after it, whether it returned or
\* raised, the caller's record holds the datasets, the metrics per dataset
\* and the value sequences it held when the call was made (the metric that
\* popitem removes is removed from the deep copy), and the calls made with
\* metric=None on that record all picked the same metric.
C12_RecordUnchanged ==
    fn = "plot_metric" =>
        /\ RecordValue(heap, booster) = call_kwargs.record
        /\ \A i, j \in 1..Len(picked) : picked[i] = picked[j]

\* The second call with metric=None on a record of two metrics has
\* returned: its copy of the first dataset's mapping has lost the metric
\* picked, the caller's mapping still holds both.
C12_Witness ==
    /\ fn = "plot_metric" /\ pc = "done" /\ returned /\ Len(picked) = 2
    /\ Len(heap[heap[booster][1][2]]) = 2
    /\ Len(heap[heap[eval_results][1][2]]) = 1
    /\ ~HasKey(heap[heap[eval_results][1][2]], metric)

============================================================================
